---- MODULE Spec2Model ----
(***************************************************************************)
(* Order processing, stock reconciliation and account blocking of the      *)
(* logistics application (src/logistics).                                  *)
(*                                                                         *)
(* Every database statement of a handler is one step: Django runs in       *)
(* autocommit mode, so the statements of two handlers interleave freely.   *)
(* A process (a Celery worker slot or a web request) holds the model       *)
(* instances it loaded in `local`; Model.save() without update_fields      *)
(* writes every field of the in-memory instance back to the row.           *)
(***************************************************************************)
EXTENDS Integers, FiniteSets, Sequences, TLC

\* ------------------------------------------------------------- bounds
\* MaxRuns bounds the process_order tasks enqueued plus the admin form saves
MaxStock == 2
MaxQty == 2
MaxRuns == 3

\* ---------------------------------------------------------- constants
BlockThreshold == 3
failed_count__gt == 3

Products == {"p1", "p2"}
Accounts == {"a1", "a2"}
OrderIds == {"o1", "o2"}
Procs == {"t1", "t2"}

\* tenancy: the company and role of each profile, the company of each product
ProfileCompany == [a \in Accounts |-> IF a = "a1" THEN "cA" ELSE "cB"]
ProfileRole == [a \in Accounts |-> IF a = "a1" THEN "operator" ELSE "admin"]
ProductCompany == [p \in Products |-> IF p = "p1" THEN "cA" ELSE "cB"]

PENDING == "pending"
PROCESSING == "processing"
APPROVED == "approved"
FAILED == "failed"
OrderStatus == {PENDING, PROCESSING, APPROVED, FAILED}

READY == "ready"
ExportStatus == {PENDING, READY, FAILED}
ExportIds == {"e1", "e2"}

\* the null of a nullable column (Export.file, Export.note)
Null == <<>>

\* readings of the clock (time.time_ns() in units of 10^10 ns), in order: a first
\* instant, ten seconds later, and 10^5 seconds later
Instants == <<179380000, 179380001, 179390000>>

VARIABLES
    stock_quantity,       \* Product.stock_quantity, per product
    orders,               \* the Order rows, per id
    failed_orders_count,  \* Profile.failed_orders_count, per account
    is_blocked,           \* Profile.is_blocked, per account
    queue,                \* process_order deliveries waiting, per order id
    pc,                   \* where each process is in its handler
    local,                \* the instances and locals each process holds
    tokens,               \* accounts that have a Token row
    sessions,             \* accounts with an admin console session
    response,             \* the last response of the API / login form
    \* history variables (not program state)
    stock0,               \* the stock each product started with
    enqueued,             \* number of process_order tasks enqueued so far
    runs,                 \* process_order runs started, per order
    decremented,          \* amount process_order removed from stock, per order
    failures,             \* processed-failure events raised (post_save), per account
    edits,                \* orders saved from the admin change form so far
    retried,              \* orders for which a retry request was accepted
    \* exports
    exports,              \* the Export rows, per id
    storage,              \* the files of the storage: name -> rows written
    xqueue,               \* generate_export deliveries waiting: <<export id, order ids>>
    xlocal,               \* the instance and locals of a generate_export run
    now,                  \* the clock: time.time_ns() in units of 10^10 ns
    seen,                 \* the records the last list request returned
    \* history variables (not program state)
    xruns,                \* generate_export runs started, per export
    reset_base,           \* processed failures whose handler had finished at the last reset
    reserved,             \* amount the creation of each order removed from the stock
    cleared               \* accounts that were unblocked after a reset of their counter

exportVars == <<exports, storage, xqueue, xlocal, now, xruns>>
sideVars == <<exportVars, seen, reset_base, reserved, cleared>>

vars == <<stock_quantity, orders, failed_orders_count, is_blocked, queue,
          pc, local, tokens, sessions, response,
          stock0, enqueued, runs, decremented, failures, edits, retried,
          exports, storage, xqueue, xlocal, now, seen, xruns, reset_base, reserved, cleared>>

histVars == <<stock0, enqueued, runs, decremented, failures, edits, retried>>

\* ------------------------------------------------------------ records
NoOrder == [exists |-> FALSE, product |-> "p1", quantity |-> 1, status |-> PENDING,
            has_been_processed |-> FALSE, created_by |-> "a1", company |-> "cA"]

\* a new Order row: status and has_been_processed take the field defaults
NewOrder(p, q, a, c) == [exists |-> TRUE, product |-> p, quantity |-> q, status |-> PENDING,
                         has_been_processed |-> FALSE, created_by |-> a, company |-> c]

Idle == [order |-> "o1", status |-> PENDING, has_been_processed |-> FALSE,
         success |-> FALSE, count |-> 0, items |-> <<>>, by |-> "a1"]

\* order ids in the order the store hands them out
OrderSeq == <<"o1", "o2">>

\* a text value of a nullable text column
Text(string) == <<string>>

NoExport == [exists |-> FALSE, status |-> PENDING, file |-> Null, note |-> Null,
             requested_by |-> "a1", company |-> "cA"]

\* a new Export row: Export.save sets the company of the requesting profile
NewExport(a) == [exists |-> TRUE, status |-> PENDING, file |-> Null, note |-> Null,
                 requested_by |-> a, company |-> ProfileCompany[a]]

XIdle == [export |-> "e1", order_ids |-> <<>>, rows |-> <<>>, file |-> Null, e |-> Null]

\* ----------------------------------------------------- store primitives

\* Product.objects.filter(pk=..., stock_quantity__gte=quantity): the row matches
StockFilterAll(stock, quantity) == TRUE
StockFilterStrict(stock, quantity) == stock > quantity
StockFilter(stock, quantity) == stock >= quantity

\* stock_quantity is a PositiveIntegerField: an UPDATE that would store a negative
\* value raises IntegrityError where the backend enforces the field's CHECK
\* constraint, and is stored as it is where the backend does not
Rejected(value, enforced) == enforced /\ value < 0

\* handle_order_status_change's condition on the saved instance
TriggersAlways(status, has_been_processed) == status = FAILED
Triggers(status, has_been_processed) == status = FAILED /\ has_been_processed = TRUE

\* the test both login paths make: hasattr(user, "profile") and user.profile.is_blocked
\* (every account of the model has a profile)
LoginRefusedNever(u) == FALSE
LoginRefused(u) == is_blocked[u]

\* increment_failed_orders' test on the incremented count
ShouldBlockAbove(count) == count > BlockThreshold
ShouldBlock(count) == count >= BlockThreshold

\* ------------------------------------------------------------- Init
InitCommon ==
    /\ failed_orders_count = [a \in Accounts |-> 0]
    /\ is_blocked = [a \in Accounts |-> FALSE]
    /\ queue = [o \in OrderIds |-> 0]
    /\ pc = [t \in Procs |-> "idle"]
    /\ local = [t \in Procs |-> Idle]
    /\ tokens = {"a1"}
    /\ sessions = {}
    /\ response = "none"
    /\ enqueued = 0
    /\ runs = [o \in OrderIds |-> 0]
    /\ decremented = [o \in OrderIds |-> 0]
    /\ failures = [a \in Accounts |-> 0]
    /\ edits = 0
    /\ retried = {}
    /\ xqueue = {}
    /\ xlocal = [t \in Procs |-> XIdle]
    /\ now = Instants[1]
    /\ seen = {}
    /\ xruns = [e \in ExportIds |-> 0]
    /\ reset_base = [a \in Accounts |-> -1]
    /\ reserved = [o \in OrderIds |-> 0]
    /\ cleared = {}

\* no export has been requested and the storage is empty
NoExports ==
    /\ exports = [e \in ExportIds |-> NoExport]
    /\ storage = {}

\* Two pending orders exist (created in the admin console, which checks no stock):
\* either both on one product by one account, or on two products by two accounts
Init ==
    /\ InitCommon
    /\ NoExports
    /\ \E s \in 0..MaxStock : stock_quantity = [p \in Products |-> s]
    /\ stock0 = stock_quantity
    /\ \E second \in {<<"p1", "a1">>, <<"p2", "a2">>}, q1, q2 \in 1..MaxQty :
          orders = [o \in OrderIds |->
                      IF o = "o1" THEN NewOrder("p1", q1, "a1", ProductCompany["p1"])
                                  ELSE NewOrder(second[1], q2, second[2],
                                                ProductCompany[second[1]])]

\* ------------------------------------------------- enqueueing handlers

Enqueue(S) ==
    /\ enqueued + edits + Cardinality(S) <= MaxRuns
    /\ queue' = [o \in OrderIds |-> IF o \in S THEN queue[o] + 1 ELSE queue[o]]
    /\ enqueued' = enqueued + Cardinality(S)

\* OrderAdmin.approve_orders on a selection of orders
approve_orders(selection) ==
    LET approved_orders == {o \in selection : orders[o].exists /\ orders[o].status = PENDING}
    IN /\ approved_orders # {}
       /\ Enqueue(approved_orders)
       /\ UNCHANGED <<stock_quantity, orders, failed_orders_count, is_blocked,
                      pc, local, tokens, sessions, response,
                      stock0, runs, decremented, failures, edits, retried,
                      sideVars>>

\* ------------------------------------------------------ process_order

\* line 21: order = Order.objects.get(id=order_id)
process_order_get(t, o) ==
    /\ pc[t] = "idle"
    /\ queue[o] > 0
    /\ orders[o].exists
    /\ queue' = [queue EXCEPT ![o] = @ - 1]
    /\ pc' = [pc EXCEPT ![t] = "loaded"]
    /\ local' = [local EXCEPT ![t] = [Idle EXCEPT !.order = o,
                                                  !.has_been_processed = orders[o].has_been_processed]]
    /\ runs' = [runs EXCEPT ![o] = @ + 1]
    /\ UNCHANGED <<stock_quantity, orders, failed_orders_count, is_blocked,
                   tokens, sessions, response, stock0, enqueued, decremented, failures, edits, retried,
                   sideVars>>

\* lines 24-25: order.status = PROCESSING; order.save() writes every field of the
\* instance loaded at line 21 (post_save: the status is not failed, nothing to do)
process_order_processing(t) ==
    LET o == local[t].order IN
    /\ pc[t] = "loaded"
    /\ orders' = [orders EXCEPT ![o].status = PROCESSING,
                                ![o].has_been_processed = local[t].has_been_processed]
    /\ local' = [local EXCEPT ![t].status = PROCESSING]
    /\ pc' = [pc EXCEPT ![t] = "processing"]
    /\ UNCHANGED <<stock_quantity, failed_orders_count, is_blocked, queue,
                   tokens, sessions, response, histVars,
                   sideVars>>

\* lines 29-43: the simulated external check, then the conditional UPDATE of the
\* product row; an exception is caught at line 50 and ends the run
process_order_check(t, success) ==
    LET o == local[t].order
        p == orders[o].product
        q == orders[o].quantity
        updated_rows == IF StockFilter(stock_quantity[p], q) THEN 1 ELSE 0
    IN
    /\ pc[t] = "processing"
    /\ \E enforced \in BOOLEAN :
       IF success /\ updated_rows > 0 /\ Rejected(stock_quantity[p] - q, enforced)
       THEN /\ pc' = [pc EXCEPT ![t] = "idle"]
            /\ local' = [local EXCEPT ![t] = Idle]
            /\ UNCHANGED <<stock_quantity, decremented>>
       ELSE /\ pc' = [pc EXCEPT ![t] = "decided"]
            /\ IF success /\ updated_rows > 0
               THEN /\ stock_quantity' = [stock_quantity EXCEPT ![p] = @ - q]
                    /\ decremented' = [decremented EXCEPT ![o] = @ + q]
                    /\ local' = [local EXCEPT ![t].success = success, ![t].status = APPROVED]
               ELSE /\ local' = [local EXCEPT ![t].success = success, ![t].status = FAILED]
                    /\ UNCHANGED <<stock_quantity, decremented>>
    /\ UNCHANGED <<orders, failed_orders_count, is_blocked, queue,
                   tokens, sessions, response, stock0, enqueued, runs, failures, edits, retried,
                   sideVars>>

\* lines 45-46: order.has_been_processed = True; order.save(); post_save then runs
\* handle_order_status_change on the saved instance
process_order_save(t) ==
    LET o == local[t].order IN
    /\ pc[t] = "decided"
    /\ orders' = [orders EXCEPT ![o].status = local[t].status,
                                ![o].has_been_processed = TRUE]
    /\ IF Triggers(local[t].status, TRUE)
       THEN /\ pc' = [pc EXCEPT ![t] = "post_save"]
            /\ failures' = [failures EXCEPT ![orders[o].created_by] = @ + 1]
            /\ local' = [local EXCEPT ![t].has_been_processed = TRUE]
       ELSE /\ pc' = [pc EXCEPT ![t] = "idle"]
            /\ local' = [local EXCEPT ![t] = Idle]
            /\ UNCHANGED failures
    /\ UNCHANGED <<stock_quantity, failed_orders_count, is_blocked, queue,
                   tokens, sessions, response, stock0, enqueued, runs, decremented, edits, retried,
                   sideVars>>

\* instance.created_by: the Profile row is loaded when the handler first touches it
handle_order_status_change(t) ==
    /\ pc[t] = "post_save"
    /\ local' = [local EXCEPT ![t].by = orders[local[t].order].created_by,
                              ![t].count = failed_orders_count[orders[local[t].order].created_by]]
    /\ pc' = [pc EXCEPT ![t] = "increment"]
    /\ UNCHANGED <<stock_quantity, orders, failed_orders_count, is_blocked, queue,
                   tokens, sessions, response, histVars,
                   sideVars>>

\* Profile.increment_failed_orders on the loaded instance: the count is computed in
\* memory and written back with save(update_fields=...)
increment_failed_orders(t) ==
    LET a == local[t].by
        count == local[t].count + 1
    IN
    /\ pc[t] = "increment"
    /\ failed_orders_count' = [failed_orders_count EXCEPT ![a] = count]
    /\ is_blocked' = IF ShouldBlock(count) THEN [is_blocked EXCEPT ![a] = TRUE]
                                      ELSE is_blocked
    /\ pc' = [pc EXCEPT ![t] = "idle"]
    /\ local' = [local EXCEPT ![t] = Idle]
    /\ UNCHANGED <<stock_quantity, orders, queue,
                   tokens, sessions, response, histVars,
                   sideVars>>

\* lines 50-51: a statement of the try block raises after the order was loaded (a
\* database error, the worker's soft time limit); the exception is logged, nothing
\* more is written and the task returns
process_order_except(t) ==
    /\ pc[t] \in {"loaded", "processing", "decided"}
    /\ pc' = [pc EXCEPT ![t] = "idle"]
    /\ local' = [local EXCEPT ![t] = Idle]
    /\ UNCHANGED <<stock_quantity, orders, failed_orders_count, is_blocked, queue,
                   tokens, sessions, response, histVars,
                   sideVars>>

\* ------------------------------------------------------------- retries

\* CompanyScopedViewSetMixin / OrderViewSet.get_queryset for a profile
Visible(u, o) ==
    /\ orders[o].exists
    /\ orders[o].company = ProfileCompany[u]
    /\ ProfileRole[u] = "operator" => orders[o].created_by = u

\* the condition both retry paths put on an order
RetryableAny(o) == orders[o].status = FAILED
Retryable(o) == orders[o].status = FAILED /\ orders[o].has_been_processed = TRUE

\* OrderViewSet.retry by the (token-authenticated) profile u: 404 when get_object
\* does not find the order in the caller's queryset, 400 when it is not retryable
\* (neither changes anything), else the task is enqueued
retry(u, o) ==
    /\ u \in tokens
    /\ IF Visible(u, o) /\ Retryable(o)
       THEN /\ Enqueue({o})
            /\ retried' = retried \cup {o}
       ELSE UNCHANGED <<queue, enqueued, retried>>
    /\ UNCHANGED <<stock_quantity, orders, failed_orders_count, is_blocked,
                   pc, local, tokens, sessions, response,
                   stock0, runs, decremented, failures, edits,
                   sideVars>>

\* OrderAdmin.retry_failed_orders on a selection of orders
retry_failed_orders(selection) ==
    LET failed_orders == {o \in selection : orders[o].exists /\ Retryable(o)}
    IN /\ failed_orders # {}
       /\ Enqueue(failed_orders)
       /\ retried' = retried \cup failed_orders
       /\ UNCHANGED <<stock_quantity, orders, failed_orders_count, is_blocked,
                      pc, local, tokens, sessions, response,
                      stock0, runs, decremented, failures, edits,
                      sideVars>>

\* ------------------------------------------- the admin change form

\* OrderAdmin's change form is bound: the form loads the Profile chosen as
\* created_by (as the test helper create_failed_orders holds its profile)
order_form(t, o) ==
    /\ pc[t] = "idle"
    /\ orders[o].exists
    /\ enqueued + edits < MaxRuns
    /\ local' = [local EXCEPT ![t] = [Idle EXCEPT !.order = o,
                                                  !.by = orders[o].created_by,
                                                  !.count = failed_orders_count[orders[o].created_by]]]
    /\ pc' = [pc EXCEPT ![t] = "form"]
    /\ edits' = edits + 1
    /\ UNCHANGED <<stock_quantity, orders, failed_orders_count, is_blocked, queue,
                   tokens, sessions, response, stock0, enqueued, runs, decremented, failures, retried,
                   sideVars>>

\* Order.save() of the submitted instance with the status and has_been_processed
\* the form carries, then post_save runs handle_order_status_change on it
order_save(t, status, has_been_processed) ==
    LET o == local[t].order IN
    /\ pc[t] = "form"
    /\ orders' = [orders EXCEPT ![o].status = status,
                                ![o].has_been_processed = has_been_processed]
    /\ IF Triggers(status, has_been_processed)
       THEN /\ pc' = [pc EXCEPT ![t] = "increment"]
            /\ local' = [local EXCEPT ![t].status = status,
                                      ![t].has_been_processed = has_been_processed]
            /\ failures' = [failures EXCEPT ![local[t].by] = @ + 1]
       ELSE /\ pc' = [pc EXCEPT ![t] = "idle"]
            /\ local' = [local EXCEPT ![t] = Idle]
            /\ UNCHANGED failures
    /\ UNCHANGED <<stock_quantity, failed_orders_count, is_blocked, queue,
                   tokens, sessions, response, stock0, enqueued, runs, decremented, edits, retried,
                   sideVars>>

\* ---------------------------------------------------------------- login

\* CustomAuthToken.post: the serializer checks the credentials (400 when they are
\* wrong), then the blocked test, then Token.objects.get_or_create
CustomAuthToken_post(u, password_ok) ==
    /\ IF ~password_ok
       THEN /\ response' = "400 invalid credentials"
            /\ UNCHANGED tokens
       ELSE IF LoginRefused(u)
       THEN /\ response' = "403 account is blocked"
            /\ UNCHANGED tokens
       ELSE /\ tokens' = tokens \cup {u}
            /\ response' = "200 token"
    /\ UNCHANGED <<stock_quantity, orders, failed_orders_count, is_blocked, queue,
                   pc, local, sessions, histVars,
                   sideVars>>

\* the admin site's login form: AuthenticationForm.clean checks the credentials and
\* calls CustomAdminLoginForm.confirm_login_allowed; a valid form logs the user in
CustomAdminLoginForm_clean(u, password_ok) ==
    /\ IF ~password_ok
       THEN /\ response' = "form: invalid login"
            /\ UNCHANGED sessions
       ELSE IF LoginRefused(u)
       THEN /\ response' = "form: account is blocked"
            /\ UNCHANGED sessions
       ELSE /\ sessions' = sessions \cup {u}
            /\ response' = "302 logged in"
    /\ UNCHANGED <<stock_quantity, orders, failed_orders_count, is_blocked, queue,
                   pc, local, tokens, histVars,
                   sideVars>>

\* ------------------------------------------------- order creation (API)

\* the requests the API takes: one item (create) or a list of items (bulk_create)
BulkSizes == {1, 2}
Items == UNION {[1..n -> Products \X (1..MaxQty)] : n \in BulkSizes}

FreeSeq == SelectSeq(OrderSeq, LAMBDA o : ~orders[o].exists)
Claimed == LET Need(t) == IF pc[t] = "validated" THEN Len(local[t].items) ELSE 0
           IN Need("t1") + Need("t2")

\* OrderCreateSerializer.validate on one item: the product is an active product of
\* the caller's company (product_id queryset) and the stock covers the quantity
ItemValidAnyQuantity(u, item) == ProductCompany[item[1]] = ProfileCompany[u]
ItemValid(u, item) ==
    /\ ProductCompany[item[1]] = ProfileCompany[u]
    /\ ~(stock_quantity[item[1]] < item[2])

\* serializer.is_valid(raise_exception=True) of create and bulk_create: every item is
\* validated against the rows as they are now; a ValidationError is a 400 response
\* and nothing is written
create_validate(t, u, items) ==
    /\ pc[t] = "idle"
    /\ u \in tokens
    /\ Len(items) + Claimed <= Len(FreeSeq)
    /\ IF \A i \in 1..Len(items) : ItemValid(u, items[i])
       THEN /\ pc' = [pc EXCEPT ![t] = "validated"]
            /\ local' = [local EXCEPT ![t] = [Idle EXCEPT !.items = items, !.by = u]]
            /\ UNCHANGED response
       ELSE /\ response' = "400 validation error"
            /\ UNCHANGED <<pc, local>>
    /\ UNCHANGED <<stock_quantity, orders, failed_orders_count, is_blocked, queue,
                   tokens, sessions, histVars,
                   sideVars>>

\* OrderCreateSerializer.create, first statement: super().create() inserts the Order
create_insert(t) ==
    LET item == local[t].items[1]
        o == FreeSeq[1]
    IN
    /\ pc[t] = "validated"
    /\ Len(local[t].items) = 1
    /\ orders' = [orders EXCEPT ![o] = NewOrder(item[1], item[2], local[t].by,
                                                ProfileCompany[local[t].by])]
    /\ pc' = [pc EXCEPT ![t] = "inserted"]
    /\ local' = [local EXCEPT ![t].order = o]
    /\ UNCHANGED <<stock_quantity, failed_orders_count, is_blocked, queue,
                   tokens, sessions, response, histVars,
                   sideVars>>

\* OrderCreateSerializer.create, second statement: the unconditional UPDATE
\* stock_quantity = F("stock_quantity") - quantity (IntegrityError: a 500 response,
\* the inserted order stays)
create_update(t) ==
    LET item == local[t].items[1] IN
    /\ pc[t] = "inserted"
    /\ \E enforced \in BOOLEAN :
          IF Rejected(stock_quantity[item[1]] - item[2], enforced)
          THEN UNCHANGED <<stock_quantity, reserved>>
          ELSE /\ stock_quantity' = [stock_quantity EXCEPT ![item[1]] = @ - item[2]]
               /\ reserved' = [reserved EXCEPT ![local[t].order] = @ + item[2]]
    /\ pc' = [pc EXCEPT ![t] = "idle"]
    /\ local' = [local EXCEPT ![t] = Idle]
    /\ UNCHANGED <<orders, failed_orders_count, is_blocked, queue,
                   tokens, sessions, response, histVars,
                   exportVars, seen, reset_base, cleared>>

\* the stock after the UPDATEs of a list of items, one after the other
RECURSIVE Deduct(_, _)
Deduct(stock, items) ==
    IF items = <<>> THEN stock
    ELSE Deduct([stock EXCEPT ![Head(items)[1]] = @ - Head(items)[2]], Tail(items))

\* OrderViewSet.bulk_create's perform_create under transaction.atomic: every item is
\* inserted and its stock deducted; an IntegrityError rolls the transaction back
bulk_create(t) ==
    LET items == local[t].items
        after == Deduct(stock_quantity, items)
    IN
    /\ pc[t] = "validated"
    /\ Len(items) > 1
    /\ \E enforced \in BOOLEAN :
          IF \E i \in 1..Len(items) : Rejected(after[items[i][1]], enforced)
          THEN UNCHANGED <<stock_quantity, orders, reserved>>
          ELSE /\ stock_quantity' = after
               /\ reserved' = [o \in OrderIds |->
                                 IF \E i \in 1..Len(items) : FreeSeq[i] = o
                                 THEN LET i == CHOOSE k \in 1..Len(items) : FreeSeq[k] = o
                                      IN reserved[o] + items[i][2]
                                 ELSE reserved[o]]
               /\ orders' = [o \in OrderIds |->
                               IF \E i \in 1..Len(items) : FreeSeq[i] = o
                               THEN LET i == CHOOSE k \in 1..Len(items) : FreeSeq[k] = o
                                    IN NewOrder(items[i][1], items[i][2], local[t].by,
                                                ProfileCompany[local[t].by])
                               ELSE orders[o]]
    /\ pc' = [pc EXCEPT ![t] = "idle"]
    /\ local' = [local EXCEPT ![t] = Idle]
    /\ UNCHANGED <<failed_orders_count, is_blocked, queue,
                   tokens, sessions, response, histVars,
                   exportVars, seen, reset_base, cleared>>

\* ------------------------------------------- the profile admin actions

\* ProfileAdmin.reset_failed_orders_count: queryset.update(failed_orders_count=0)
reset_failed_orders_count(selection) ==
    /\ selection # {}
    /\ failed_orders_count' = [a \in Accounts |->
                                 IF a \in selection THEN 0 ELSE failed_orders_count[a]]
    /\ reset_base' = [a \in Accounts |->
                        IF a \in selection
                        THEN failures[a] - Cardinality({t \in Procs :
                                 /\ pc[t] \in {"post_save", "increment"}
                                 /\ orders[local[t].order].created_by = a})
                        ELSE reset_base[a]]
    /\ UNCHANGED <<stock_quantity, orders, is_blocked, queue,
                   pc, local, tokens, sessions, response, histVars,
                   exportVars, seen, reserved, cleared>>

\* ProfileAdmin.unblock_users: queryset.update(is_blocked=False)
unblock_users(selection) ==
    /\ selection # {}
    /\ is_blocked' = [a \in Accounts |-> IF a \in selection THEN FALSE ELSE is_blocked[a]]
    /\ cleared' = cleared \cup {a \in selection : reset_base[a] >= 0}
    /\ UNCHANGED <<stock_quantity, orders, failed_orders_count, queue,
                   pc, local, tokens, sessions, response, histVars,
                   exportVars, seen, reset_base, reserved>>

\* OrderAdmin.deactivate_profiles run by the profile u: the failed orders (of u's
\* company unless u is a superuser) are counted per created_by, and the profiles
\* whose count passes filter(failed_count__gt=3) are blocked in one UPDATE; the
\* message tells how many rows the UPDATE matched
failed_count(u, is_superuser, a) ==
    Cardinality({o \in DOMAIN orders :
                    /\ orders[o].exists /\ orders[o].status = FAILED
                    /\ is_superuser \/ orders[o].company = ProfileCompany[u]
                    /\ orders[o].created_by = a})

deactivate_profiles(u, is_superuser) ==
    LET profiles_ids == {a \in Accounts : failed_count(u, is_superuser, a) > failed_count__gt}
        updated == Cardinality(profiles_ids)
    IN
    /\ is_blocked' = [a \in Accounts |-> IF a \in profiles_ids THEN TRUE ELSE is_blocked[a]]
    /\ response' = IF updated = 0 THEN "Deactivated 0 profiles with 3+ failed orders."
                   ELSE IF updated = 1 THEN "Deactivated 1 profiles with 3+ failed orders."
                   ELSE "Deactivated 2 profiles with 3+ failed orders."
    /\ UNCHANGED <<stock_quantity, orders, failed_orders_count, queue,
                   pc, local, tokens, sessions, histVars,
                   sideVars>>

\* ---------------------------------------------------------- exports

\* the exceptions the calls of generate_export's try block raise, as (type, args):
\* the query of the orders, and the writes of the file
OperationalError == [type |-> "OperationalError", args |-> <<"server closed the connection">>]
OSError == [type |-> "OSError", args |-> <<"[Errno 28] No space left on device">>]

\* str(e) of an exception
Str(e) == IF Len(e.args) = 0 THEN "" ELSE e.args[1]

\* the row generate_export writes for an order: reference code (the order id stands
\* for it), product SKU, quantity, status, creator
Row(o) == <<o, orders[o].product, orders[o].quantity, orders[o].status, orders[o].created_by>>

\* the sequences in which a query without ORDER BY may yield the rows of S
Orderings(S) ==
    {f \in [1..Cardinality(S) -> S] : \A i, j \in 1..Cardinality(S) : i # j => f[i] # f[j]}

\* Order.objects.filter(id__in=order_ids): the matching rows, in the order the store
\* yields them
OrderQuery(order_ids) ==
    Orderings({o \in OrderIds : orders[o].exists /\ \E i \in 1..Len(order_ids) : order_ids[i] = o})

StoredNames == {f[1] : f \in storage}

\* file_name = f"export_{str(time.time_ns())[:5]}{export_id}.csv": time_ns() has 19
\* digits, so the five leading ones are those of the clock in units of 10^14 ns;
\* they have a fixed width, so the name is the pair of the stamp and the id
file_name(clock, export_id) == <<clock \div 10000, export_id>>

\* Storage.save stores under the name asked for, or, when a file of that name is
\* there, under the name with a suffix appended (get_available_name)
AvailableName(name) ==
    LET k == CHOOSE n \in 0..Cardinality(storage) :
                 /\ <<name[1], name[2], n>> \notin StoredNames
                 /\ \A m \in 0..(n - 1) : <<name[1], name[2], m>> \in StoredNames
    IN <<name[1], name[2], k>>

\* the except block of generate_export on the loaded instance
OnFailureSilent(export, e) == export
OnFailure(export, e) == [export EXCEPT !.status = FAILED, !.note = Text(Str(e))]

ExportSeq == <<"e1", "e2">>
FreeExports == SelectSeq(ExportSeq, LAMBDA e : ~exports[e].exists)
TotalXRuns == xruns["e1"] + xruns["e2"]

\* OrderAdmin.export_orders by the profile u on a selection of the orders its
\* changelist shows: creates the Export and enqueues generate_export
export_orders(u, order_ids) ==
    LET e == FreeExports[1] IN
    /\ Len(FreeExports) > 0
    /\ \A i \in 1..Len(order_ids) : Visible(u, order_ids[i])
    /\ exports' = [exports EXCEPT ![e] = NewExport(u)]
    /\ xqueue' = xqueue \cup {<<e, order_ids>>}
    /\ UNCHANGED <<stock_quantity, orders, failed_orders_count, is_blocked, queue,
                   pc, local, tokens, sessions, response, histVars,
                   storage, xlocal, now, seen, xruns, reset_base, reserved, cleared>>

\* line 56: export = Export.objects.get(id=export_id); the queue delivers a task at
\* least once (redelivered: the message stays). DoesNotExist ends the run.
generate_export_get(t, m, redelivered) ==
    /\ pc[t] = "idle"
    /\ m \in xqueue
    /\ TotalXRuns < MaxRuns
    /\ xqueue' = IF redelivered THEN xqueue ELSE xqueue \ {m}
    /\ xruns' = [xruns EXCEPT ![m[1]] = @ + 1]
    /\ IF exports[m[1]].exists
       THEN /\ pc' = [pc EXCEPT ![t] = "x_loaded"]
            /\ xlocal' = [xlocal EXCEPT ![t] = [XIdle EXCEPT !.export = m[1],
                                                             !.order_ids = m[2],
                                                             !.file = exports[m[1]].file]]
       ELSE UNCHANGED <<pc, xlocal>>
    /\ UNCHANGED <<stock_quantity, orders, failed_orders_count, is_blocked, queue,
                   local, tokens, sessions, response, histVars,
                   exports, storage, now, seen, reset_base, reserved, cleared>>

\* lines 58-59: export.status = PENDING; export.save(update_fields=["status"])
generate_export_pending(t) ==
    /\ pc[t] = "x_loaded"
    /\ exports' = [exports EXCEPT ![xlocal[t].export].status = PENDING]
    /\ pc' = [pc EXCEPT ![t] = "x_pending"]
    /\ UNCHANGED <<stock_quantity, orders, failed_orders_count, is_blocked, queue,
                   local, tokens, sessions, response, histVars,
                   storage, xqueue, xlocal, now, seen, xruns, reset_base, reserved, cleared>>

\* lines 61-69: the temporary file, the header and one row per order of the query
generate_export_rows(t) ==
    /\ pc[t] = "x_pending"
    /\ \/ \E rows \in OrderQuery(xlocal[t].order_ids) :
             /\ xlocal' = [xlocal EXCEPT ![t].rows = [i \in DOMAIN rows |-> Row(rows[i])]]
             /\ pc' = [pc EXCEPT ![t] = "x_rows"]
       \/ /\ xlocal' = [xlocal EXCEPT ![t].e = OperationalError]
          /\ pc' = [pc EXCEPT ![t] = "x_except"]
    /\ UNCHANGED <<stock_quantity, orders, failed_orders_count, is_blocked, queue,
                   local, tokens, sessions, response, histVars,
                   exports, storage, xqueue, now, seen, xruns, reset_base, reserved, cleared>>

\* lines 71-77: export.file.save(file_name, File(tmpf), save=False) writes the file to
\* the storage and sets the instance's file, not the row's
generate_export_file(t) ==
    LET name == AvailableName(file_name(now, xlocal[t].export)) IN
    /\ pc[t] = "x_rows"
    /\ \/ /\ storage' = storage \cup {<<name, xlocal[t].rows>>}
          /\ xlocal' = [xlocal EXCEPT ![t].file = name]
          /\ pc' = [pc EXCEPT ![t] = "x_saved"]
       \/ /\ xlocal' = [xlocal EXCEPT ![t].e = OSError]
          /\ pc' = [pc EXCEPT ![t] = "x_except"]
          /\ UNCHANGED storage
    /\ UNCHANGED <<stock_quantity, orders, failed_orders_count, is_blocked, queue,
                   local, tokens, sessions, response, histVars,
                   exports, xqueue, now, seen, xruns, reset_base, reserved, cleared>>

\* lines 79-80: export.status = READY; export.save(update_fields=["file", "status"])
generate_export_ready(t) ==
    LET e == xlocal[t].export IN
    /\ pc[t] = "x_saved"
    /\ exports' = [exports EXCEPT ![e].file = xlocal[t].file, ![e].status = READY]
    /\ pc' = [pc EXCEPT ![t] = "idle"]
    /\ xlocal' = [xlocal EXCEPT ![t] = XIdle]
    /\ UNCHANGED <<stock_quantity, orders, failed_orders_count, is_blocked, queue,
                   local, tokens, sessions, response, histVars,
                   storage, xqueue, now, seen, xruns, reset_base, reserved, cleared>>

\* lines 82-86: export.status = FAILED; export.note = str(e);
\* export.save(update_fields=["note", "status"])
generate_export_except(t) ==
    LET e == xlocal[t].export
        saved == OnFailure(exports[e], xlocal[t].e)
    IN
    /\ pc[t] = "x_except"
    /\ exports' = [exports EXCEPT ![e].status = saved.status, ![e].note = saved.note]
    /\ pc' = [pc EXCEPT ![t] = "idle"]
    /\ xlocal' = [xlocal EXCEPT ![t] = XIdle]
    /\ UNCHANGED <<stock_quantity, orders, failed_orders_count, is_blocked, queue,
                   local, tokens, sessions, response, histVars,
                   storage, xqueue, now, seen, xruns, reset_base, reserved, cleared>>

\* time passes between two statements
Tick ==
    /\ \E i \in DOMAIN Instants : Instants[i] > now /\ now' = Instants[i]
    /\ UNCHANGED <<stock_quantity, orders, failed_orders_count, is_blocked, queue,
                   pc, local, tokens, sessions, response, histVars,
                   exports, storage, xqueue, xlocal, seen, xruns, reset_base, reserved, cleared>>

generate_export(t) ==
    \/ \E m \in xqueue, redelivered \in BOOLEAN : generate_export_get(t, m, redelivered)
    \/ generate_export_pending(t)
    \/ generate_export_rows(t)
    \/ generate_export_file(t)
    \/ generate_export_ready(t)
    \/ generate_export_except(t)

\* ------------------------------------------------------ the read API

\* request.user: its profile (or none) and its is_superuser flag. A superuser has
\* the admin role create_user_profile gives it, or no profile (a demo_ user name).
NoProfile == "no profile"
RequestUsers ==
    {[profile |-> a, is_superuser |-> FALSE] : a \in Accounts \cup {NoProfile}}
    \cup {[profile |-> a, is_superuser |-> TRUE] :
             a \in {x \in Accounts : ProfileRole[x] = "admin"} \cup {NoProfile}}

\* IsCompanyMember.has_permission of an authenticated user (a profile always has a
\* company)
has_permission(user) == user.profile # NoProfile

\* IsCompanyMember.has_object_permission on an object with a company
has_object_permission(user, obj) ==
    /\ has_permission(user)
    /\ obj.company = ProfileCompany[user.profile]

\* CompanyScopedViewSetMixin.get_queryset's filter on a row of company c
Scoped(user, c) == user.is_superuser \/ c = ProfileCompany[user.profile]

\* OrderViewSet.get_queryset
OrderQueryset(user) ==
    LET base_queryset == {o \in DOMAIN orders : orders[o].exists /\ Scoped(user, orders[o].company)}
    IN IF user.profile # NoProfile /\ ProfileRole[user.profile] = "operator"
       THEN {o \in base_queryset : orders[o].created_by = user.profile}
       ELSE IF user.profile # NoProfile THEN base_queryset
       ELSE {}

ProductQueryset(user) == {p \in Products : Scoped(user, ProductCompany[p])}
ExportQueryset(user) == {e \in ExportIds : exports[e].exists /\ Scoped(user, exports[e].company)}

\* GET orders/: the permission check, then the list of the queryset
list_orders(user) ==
    /\ IF has_permission(user)
       THEN response' = "200 orders" /\ seen' = OrderQueryset(user)
       ELSE response' = "403 forbidden" /\ seen' = {}
    /\ UNCHANGED <<stock_quantity, orders, failed_orders_count, is_blocked, queue,
                   pc, local, tokens, sessions, histVars,
                   exportVars, reset_base, reserved, cleared>>

\* GET products/
list_products(user) ==
    /\ IF has_permission(user)
       THEN response' = "200 products" /\ seen' = ProductQueryset(user)
       ELSE response' = "403 forbidden" /\ seen' = {}
    /\ UNCHANGED <<stock_quantity, orders, failed_orders_count, is_blocked, queue,
                   pc, local, tokens, sessions, histVars,
                   exportVars, reset_base, reserved, cleared>>

\* the body of ExportViewSet.download on the export it got; opened: export.file.open
\* raised nothing but FileNotFoundError
DownloadResponseAnyStatus(export, opened) ==
    IF export.file = Null THEN "404 not available"
    ELSE IF export.file \notin StoredNames THEN "404 not on storage"
    ELSE "200 file"
DownloadResponse(export, opened) ==
    IF export.status # READY THEN "400 not ready"
    ELSE IF export.file = Null THEN "404 not available"
    ELSE IF export.file \notin StoredNames THEN "404 not on storage"
    ELSE IF opened THEN "200 file"
    ELSE "500 could not initiate"

\* GET exports/<pk>/download/: the permission check, get_object (the queryset, then
\* the object permission), then the body
download(user, e, opened) ==
    /\ response' = IF ~has_permission(user) THEN "403 forbidden"
                   ELSE IF e \notin ExportQueryset(user) THEN "404 not found"
                   ELSE IF ~has_object_permission(user, exports[e]) THEN "403 forbidden"
                   ELSE DownloadResponse(exports[e], opened)
    /\ seen' = IF response' = "200 file" THEN {e} ELSE {}
    /\ UNCHANGED <<stock_quantity, orders, failed_orders_count, is_blocked, queue,
                   pc, local, tokens, sessions, histVars,
                   exportVars, reset_base, reserved, cleared>>

\* ------------------------------------------------------ specifications
process_order(t) ==
    \/ \E o \in OrderIds : process_order_get(t, o)
    \/ process_order_processing(t)
    \/ \E success \in BOOLEAN : process_order_check(t, success)
    \/ process_order_save(t)
    \/ handle_order_status_change(t)
    \/ increment_failed_orders(t)

Next ==
    \/ \E S \in SUBSET OrderIds : approve_orders(S)
    \/ \E S \in SUBSET OrderIds : retry_failed_orders(S)
    \/ \E u \in Accounts, o \in OrderIds : retry(u, o)
    \/ \E t \in Procs : process_order(t)

Spec == Init /\ [][Next]_vars

\* the failure handlers run one at a time: at most one process holds a loaded
\* Profile whose count it has yet to write back
OneHandler == Cardinality({t \in Procs : pc[t] = "increment"}) <= 1
NextSeq == Next /\ OneHandler'
SpecSeq == Init /\ [][NextSeq]_vars

\* processing together with orders saved from the admin change form
InitAdmin ==
    /\ Init
    /\ \A p \in Products : stock_quantity[p] = 1
    /\ \A o \in OrderIds : orders[o].quantity = 1
NextAdmin ==
    \/ Next
    \/ \E t \in Procs, o \in OrderIds : order_form(t, o)
    \/ \E t \in Procs, status \in OrderStatus, has_been_processed \in BOOLEAN :
          order_save(t, status, has_been_processed)
SpecAdmin == InitAdmin /\ [][NextAdmin]_vars

\* processing together with logins: one order of each account and no stock, so
\* that every run fails; one worker process runs the tasks, and a login can fall
\* between any two of its statements
InitAuth ==
    /\ Init
    /\ \A p \in Products : stock_quantity[p] = 0
    /\ \A o \in OrderIds : orders[o].quantity = 1
    /\ orders["o2"].created_by = "a2"
NextAuth ==
    \/ \E S \in SUBSET OrderIds : approve_orders(S)
    \/ \E S \in SUBSET OrderIds : retry_failed_orders(S)
    \/ \E u \in Accounts, o \in OrderIds : retry(u, o)
    \/ process_order("t1")
    \/ \E u \in Accounts, password_ok \in BOOLEAN : CustomAuthToken_post(u, password_ok)
    \/ \E u \in Accounts, password_ok \in BOOLEAN : CustomAdminLoginForm_clean(u, password_ok)
SpecAuth == InitAuth /\ [][NextAuth]_vars

\* the whole order workflow: orders are created through the API, then processed
InitApi ==
    /\ InitCommon
    /\ NoExports
    /\ \E s \in 0..MaxStock : stock_quantity = [p \in Products |-> s]
    /\ stock0 = stock_quantity
    /\ orders = [o \in OrderIds |-> NoOrder]
NextApi ==
    \/ Next
    \/ \E t \in Procs, u \in Accounts, items \in Items : create_validate(t, u, items)
    \/ \E t \in Procs : create_insert(t)
    \/ \E t \in Procs : create_update(t)
    \/ \E t \in Procs : bulk_create(t)
SpecApi == InitApi /\ [][NextApi]_vars

\* order creation alone: clients obtain their token and their requests interleave
NextCreate ==
    \/ \E u \in Accounts, password_ok \in BOOLEAN : CustomAuthToken_post(u, password_ok)
    \/ \E t \in Procs, u \in Accounts, items \in Items : create_validate(t, u, items)
    \/ \E t \in Procs : create_insert(t)
    \/ \E t \in Procs : create_update(t)
    \/ \E t \in Procs : bulk_create(t)
SpecCreate == InitApi /\ [][NextCreate]_vars

\* exports of the two orders: requested in the admin console, generated by the workers
OrderLists == {<<"o1">>, <<"o1", "o2">>, <<"o2", "o1">>}
InitExport ==
    /\ Init
    /\ \A p \in Products : stock_quantity[p] = 1
    /\ \A o \in OrderIds : orders[o].quantity = 1
    /\ orders["o2"].created_by = "a1"
NextExport ==
    \/ \E u \in Accounts, order_ids \in OrderLists : export_orders(u, order_ids)
    \/ \E t \in Procs : generate_export(t)
SpecExport == InitExport /\ [][NextExport]_vars

\* exports of one order while the clock advances
NextNames ==
    \/ \E u \in Accounts : export_orders(u, <<"o1">>)
    \/ \E t \in Procs : generate_export(t)
    \/ Tick
SpecNames == InitExport /\ [][NextNames]_vars

\* processing together with the profile admin actions: no stock, so that every run
\* fails
NextReset ==
    \/ Next
    \/ \E S \in SUBSET Accounts : reset_failed_orders_count(S)
    \/ \E S \in SUBSET Accounts : unblock_users(S)
SpecReset == InitAuth /\ [][NextReset]_vars

\* the reconciliation action over a table of four orders in their final statuses
\* (as the demo data and earlier processing leave them), the accounts unblocked
LedgerIds == {"o1", "o2", "o3", "o4"}
InitDeactivate ==
    /\ InitCommon
    /\ NoExports
    /\ stock_quantity = [p \in Products |-> MaxStock]
    /\ stock0 = stock_quantity
    /\ \E by \in [LedgerIds -> Accounts], status \in [LedgerIds -> {APPROVED, FAILED}],
          has_been_processed \in [LedgerIds -> BOOLEAN] :
          orders = [o \in LedgerIds |->
                      [NewOrder(IF by[o] = "a1" THEN "p1" ELSE "p2", 1, by[o],
                                ProfileCompany[by[o]])
                         EXCEPT !.status = status[o],
                                !.has_been_processed = has_been_processed[o]]]
NextDeactivate ==
    \/ \E u \in Accounts, is_superuser \in BOOLEAN : deactivate_profiles(u, is_superuser)
    \/ \E S \in SUBSET Accounts : unblock_users(S)
SpecDeactivate == InitDeactivate /\ [][NextDeactivate]_vars

\* processing in which a run may be cut short by an exception
NextAbort ==
    \/ Next
    \/ \E t \in Procs : process_order_except(t)
SpecAbort == Init /\ [][NextAbort]_vars

\* reads of the API over the orders of Init and exports in every state a run of
\* generate_export, the admin console or the loss of a stored file leaves them in
StoredFile == <<Instants[1] \div 10000, "e1", 0>>
InitRead ==
    /\ InitCommon
    /\ stock_quantity = [p \in Products |-> MaxStock]
    /\ stock0 = stock_quantity
    /\ \E second \in {<<"p1", "a1">>, <<"p2", "a2">>} :
          orders = [o \in OrderIds |->
                      IF o = "o1" THEN NewOrder("p1", 1, "a1", ProductCompany["p1"])
                                  ELSE NewOrder(second[1], 1, second[2],
                                                ProductCompany[second[1]])]
    /\ \E a, b \in Accounts, status \in [ExportIds -> ExportStatus],
          file \in [ExportIds -> {Null, StoredFile}] :
          exports = [e \in ExportIds |->
                       [NewExport(IF e = "e1" THEN a ELSE b)
                          EXCEPT !.status = status[e], !.file = file[e]]]
    /\ storage \in {{}, {<<StoredFile, <<>>>>}}
NextRead ==
    \/ \E user \in RequestUsers, e \in ExportIds, opened \in BOOLEAN : download(user, e, opened)
    \/ \E user \in RequestUsers : list_orders(user)
    \/ \E user \in RequestUsers : list_products(user)
SpecRead == InitRead /\ [][NextRead]_vars

\* ------------------------------------------------------------- claims

\* a process_order run for order o has not yet saved its terminal status
Running(o) == \E t \in Procs : pc[t] \in {"loaded", "processing", "decided"} /\ local[t].order = o

\* a post_save handler for an order of account a is between its trigger and its write
Handling(a) == \E t \in Procs : /\ pc[t] \in {"post_save", "increment"}
                                /\ orders[local[t].order].created_by = a

ApprovedQuantity(o) == IF orders[o].status = APPROVED THEN orders[o].quantity ELSE 0

(* C1: in every state reached by process_order runs (any interleaving of the
   workers, any outcome of the external check) every product's stock_quantity
   is at least 0. *)
C1_StockNeverNegative == \A p \in Products : stock_quantity[p] >= 0

\* a run whose external check succeeded found too little stock left by an earlier
\* decrement, and failed the order without touching the stock
C1_Witness ==
    \E t \in Procs :
        /\ pc[t] = "decided" /\ local[t].success /\ local[t].status = FAILED
        /\ stock_quantity[orders[local[t].order].product] < orders[local[t].order].quantity
        /\ stock_quantity[orders[local[t].order].product]
              < stock0[orders[local[t].order].product]

(* C2: two different orders on one product, each run once, the stock before the
   runs at least each quantity but less than their sum: when both runs have
   finished at most one order is approved, the other is failed, and the stock went
   down by exactly the approved order's quantity. *)
C2_NoOverdraw ==
    \A a, b \in OrderIds :
        LET p == orders[a].product IN
        ( /\ a # b /\ orders[a].exists /\ orders[b].exists /\ orders[b].product = p
          /\ stock0[p] >= orders[a].quantity /\ stock0[p] >= orders[b].quantity
          /\ stock0[p] < orders[a].quantity + orders[b].quantity
          /\ runs[a] = 1 /\ runs[b] = 1 /\ ~Running(a) /\ ~Running(b)
          /\ \A c \in OrderIds \ {a, b} : orders[c].product = p => runs[c] = 0 )
        => /\ ~(orders[a].status = APPROVED /\ orders[b].status = APPROVED)
           /\ orders[a].status \in {APPROVED, FAILED}
           /\ orders[b].status \in {APPROVED, FAILED}
           /\ stock_quantity[p] = stock0[p] - ApprovedQuantity(a) - ApprovedQuantity(b)

\* both runs are over, one order approved and the other failed
C2_Witness ==
    \E a, b \in OrderIds :
        /\ a # b /\ orders[a].product = orders[b].product
        /\ stock0[orders[a].product] >= orders[a].quantity
        /\ stock0[orders[a].product] >= orders[b].quantity
        /\ stock0[orders[a].product] < orders[a].quantity + orders[b].quantity
        /\ runs[a] = 1 /\ runs[b] = 1 /\ ~Running(a) /\ ~Running(b)
        /\ orders[a].status = APPROVED /\ orders[b].status = FAILED
        /\ stock_quantity[orders[a].product] = stock0[orders[a].product] - orders[a].quantity

(* C3: however often process_order is delivered for one order, the stock removed
   on behalf of that order is at most the order's quantity (one decrement). *)
C3_DecrementAtMostOnce == \A o \in OrderIds : decremented[o] <= orders[o].quantity

(* C4: when no failure handler of an account is in flight, its failed_orders_count
   equals the number of processed-failure events raised for it (it started at 0
   and nothing resets it), and a count of 3 or more comes with is_blocked. *)
C4_RaceSafeIncrement ==
    \A a \in Accounts :
        ~Handling(a) => /\ failed_orders_count[a] = failures[a]
                        /\ (failed_orders_count[a] >= BlockThreshold => is_blocked[a])

(* C10: a process_order run changes the stock iff it ends approved, and then by
   minus the quantity: with a successful check the run is approved iff
   stock_quantity >= quantity at the conditional update, else failed with the
   stock unchanged; the terminal save writes that status with
   has_been_processed true and leaves the stock alone. *)
C10_StockChangesIffApproved ==
    [][ /\ \A p \in Products :
            stock_quantity'[p] # stock_quantity[p] =>
                \E t \in Procs :
                    /\ pc[t] = "processing" /\ pc'[t] = "decided"
                    /\ local'[t].status = APPROVED
                    /\ orders[local[t].order].product = p
                    /\ stock_quantity'[p] = stock_quantity[p] - orders[local[t].order].quantity
        /\ \A t \in Procs :
            (pc[t] = "processing" /\ pc'[t] # "processing") =>
                LET p == orders[local[t].order].product
                    q == orders[local[t].order].quantity
                IN /\ pc'[t] = "decided"
                   /\ local'[t].status \in {APPROVED, FAILED}
                   /\ local'[t].status = APPROVED <=> (local'[t].success /\ stock_quantity[p] >= q)
                   /\ local'[t].status = APPROVED => stock_quantity'[p] = stock_quantity[p] - q
                   /\ local'[t].status = FAILED => stock_quantity' = stock_quantity
        /\ \A t \in Procs :
            (pc[t] = "decided" /\ pc'[t] # "decided") =>
                /\ orders'[local[t].order].status = local[t].status
                /\ orders'[local[t].order].has_been_processed
                /\ stock_quantity' = stock_quantity
      ]_vars

\* a run that was approved has taken its quantity from the stock and is about to
\* save the terminal status
C10_Witness ==
    \E t \in Procs :
        /\ pc[t] = "decided" /\ local[t].status = APPROVED
        /\ decremented[local[t].order] >= orders[local[t].order].quantity
        /\ stock_quantity[orders[local[t].order].product]
              <= stock0[orders[local[t].order].product] - orders[local[t].order].quantity

(* C5: failed_orders_count and is_blocked change only in the write of a handler
   that was triggered by a save with status failed and has_been_processed true;
   a save with status failed and has_been_processed false raises no failure event
   and leaves both untouched. *)
C5_OnlyProcessedFailuresCount ==
    [][ /\ \A a \in Accounts :
            (failed_orders_count'[a] # failed_orders_count[a] \/ is_blocked'[a] # is_blocked[a])
            => \E t \in Procs :
                   /\ pc[t] = "increment" /\ pc'[t] = "idle" /\ local[t].by = a
                   /\ local[t].status = FAILED /\ local[t].has_been_processed = TRUE
                   /\ failed_orders_count'[a] = local[t].count + 1
        /\ \A t \in Procs :
            ( /\ pc[t] = "form" /\ pc'[t] # "form"
              /\ orders'[local[t].order].status = FAILED
              /\ orders'[local[t].order].has_been_processed = FALSE )
            => /\ pc'[t] = "idle"
               /\ UNCHANGED <<failed_orders_count, is_blocked, failures>>
      ]_vars

\* an order was saved as failed with has_been_processed false and nobody's count moved
C5_Witness ==
    \E o \in OrderIds :
        /\ orders[o].status = FAILED /\ orders[o].has_been_processed = FALSE
        /\ edits > 0 /\ runs[o] = 0
        /\ \A a \in Accounts : failed_orders_count[a] = 0 /\ ~is_blocked[a] /\ failures[a] = 0
        /\ \A t \in Procs : pc[t] = "idle"

(* C6: with the failure handlers run one at a time, from count 0 and unblocked:
   the account is blocked exactly when its count is 3 or more (so not at 1 or 2,
   and from the update that writes 3), and outside a handler the count is the
   number of processed failures. *)
C6_BlockedExactlyAtThree ==
    \A a \in Accounts :
        /\ is_blocked[a] <=> failed_orders_count[a] >= 3
        /\ ~Handling(a) => failed_orders_count[a] = failures[a]

\* three processed failures of one account have been handled
C6_Witness ==
    \E a \in Accounts : failures[a] = 3 /\ failed_orders_count[a] = 3 /\ is_blocked[a]

(* C7: a retry request (API retry, admin retry_failed_orders) enqueues
   process_order for an order only if the order is failed with
   has_been_processed true when it is checked; for any other order the request
   changes nothing at all. *)
C7_RetryOnlyFailedProcessed ==
    [][ /\ \A u \in Accounts, o \in OrderIds :
            retry(u, o) =>
                IF orders[o].status = FAILED /\ orders[o].has_been_processed = TRUE
                THEN \A x \in OrderIds : queue'[x] # queue[x] => x = o
                ELSE UNCHANGED vars
        /\ \A S \in SUBSET OrderIds :
            retry_failed_orders(S) =>
                /\ \A x \in OrderIds :
                       queue'[x] # queue[x] =>
                           /\ x \in S /\ queue'[x] = queue[x] + 1
                           /\ orders[x].status = FAILED /\ orders[x].has_been_processed = TRUE
                /\ UNCHANGED <<stock_quantity, orders, failed_orders_count, is_blocked>>
      ]_vars

\* an accepted retry is waiting in the queue while another order is failed without
\* having been processed (the case a retry refuses)
C7_Witness ==
    \E o, x \in OrderIds :
        /\ o \in retried /\ queue[o] > 0
        /\ orders[o].status = FAILED /\ orders[o].has_been_processed
        /\ orders[x].status = FAILED /\ ~orders[x].has_been_processed

(* C8: a login of an account whose is_blocked is true creates no token and no
   session at either entry point, and with the correct password it is answered
   with the 'account is blocked' error, which is not the wrong-password error. *)
C8_BlockedCannotLogin ==
    [][ \A u \in Accounts, password_ok \in BOOLEAN :
          /\ (CustomAuthToken_post(u, password_ok) /\ is_blocked[u]) =>
                /\ tokens' = tokens /\ sessions' = sessions
                /\ response' # "200 token"
                /\ password_ok => response' = "403 account is blocked"
          /\ (CustomAdminLoginForm_clean(u, password_ok) /\ is_blocked[u]) =>
                /\ tokens' = tokens /\ sessions' = sessions
                /\ response' # "302 logged in"
                /\ password_ok => response' = "form: account is blocked"
      ]_vars

\* the only account that could have asked for a token is blocked, holds no token
\* and was just refused one
C8_Witness ==
    \E u \in Accounts :
        /\ is_blocked[u] /\ u \notin tokens /\ u \notin sessions
        /\ \A v \in Accounts \ {u} : v \in tokens /\ ~is_blocked[v]
        /\ response = "403 account is blocked"

Generating(e) ==
    \E t \in Procs : /\ pc[t] \in {"x_loaded", "x_pending", "x_rows", "x_saved", "x_except"}
                     /\ xlocal[t].export = e

\* export e can be downloaded: ready, with a file that is in the storage
Downloadable(e) ==
    /\ exports[e].exists /\ exports[e].status = READY
    /\ exports[e].file # Null /\ exports[e].file \in StoredNames

(* C11: the step that ends a generate_export run writes status ready together with
   the file the run stored (success), or status failed together with a non-empty
   note (a failure during generation); so an export that was run and has no run
   in flight is ready or failed, never pending. *)
C11_ExportRunRecorded ==
    [][ /\ \A t \in Procs :
            (pc[t] \in {"x_pending", "x_rows", "x_saved", "x_except"} /\ pc'[t] = "idle") =>
                LET e == xlocal[t].export IN
                \/ /\ pc[t] = "x_saved"
                   /\ exports'[e].status = READY
                   /\ exports'[e].file = xlocal[t].file
                   /\ exports'[e].file # Null /\ exports'[e].file \in StoredNames
                \/ /\ pc[t] = "x_except"
                   /\ exports'[e].status = FAILED
                   /\ exports'[e].note # Null /\ exports'[e].note # Text("")
        /\ \A e \in ExportIds :
            (xruns'[e] > 0 /\ ~Generating(e)') => exports'[e].status \in {READY, FAILED}
      ]_vars

\* one export was run and failed with its note, another was run and is ready with
\* its file, and no run is in flight
C11_Witness ==
    \E e, x \in ExportIds :
        /\ xruns[e] > 0 /\ ~Generating(e)
        /\ exports[e].status = FAILED /\ exports[e].note = Text(Str(OSError))
        /\ xruns[x] > 0 /\ ~Generating(x)
        /\ Downloadable(x)

(* C12: a file reference, once attached, always names a file of the storage, and
   an export that is downloadable (ready with its file) stays downloadable
   throughout and after any re-run of generate_export for it. *)
C12_ReadyStaysDownloadable ==
    [][ \A e \in ExportIds :
            /\ exports'[e].file # Null => exports'[e].file \in StoredNames'
            /\ Downloadable(e) => Downloadable(e)'
      ]_vars

(* C13: two generate_export runs over the same set of orders, the orders unchanged
   in between, write the same rows in the same sequence. *)
C13_ExportDeterministic ==
    \A f, g \in storage :
        {f[2][i][1] : i \in DOMAIN f[2]} = {g[2][i][1] : i \in DOMAIN g[2]} => f[2] = g[2]

(* C14: with no administrator unblocking, under any interleaving of processing,
   failures and retries: is_blocked never goes from true to false, a
   failed_orders_count of 3 or more always comes with is_blocked, and no step
   lowers failed_orders_count. *)
C14_BlockedStaysAndCountNeverLowered ==
    [][ \A a \in Accounts :
            /\ is_blocked[a] => is_blocked'[a]
            /\ failed_orders_count'[a] >= BlockThreshold => is_blocked'[a]
            /\ failed_orders_count'[a] >= failed_orders_count[a]
      ]_vars

(* C15: once reset_failed_orders_count has reset an account, its counter never
   exceeds the number of processed failures handled since the reset, every
   handler that was in flight at the reset counted among them (so a handler
   that read the count before the reset may add one, not bring the old count
   back); a reset of accounts whose counter is 0 and an unblock of accounts that
   are not blocked change nothing (applying twice is applying once). *)
C15_ResetNotUndone ==
    [][ /\ \A a \in Accounts :
            reset_base'[a] >= 0 => failed_orders_count'[a] <= failures'[a] - reset_base'[a]
        /\ \A S \in SUBSET Accounts :
            /\ (reset_failed_orders_count(S) /\ \A a \in S : failed_orders_count[a] = 0)
                  => UNCHANGED <<failed_orders_count, is_blocked>>
            /\ (unblock_users(S) /\ \A a \in S : ~is_blocked[a])
                  => UNCHANGED <<failed_orders_count, is_blocked>>
      ]_vars

\* the failed orders of account a that were processed
ProcessedFailures(a) ==
    Cardinality({o \in DOMAIN orders : /\ orders[o].exists /\ orders[o].created_by = a
                                       /\ orders[o].status = FAILED
                                       /\ orders[o].has_been_processed})

(* C16: after deactivate_profiles run by a superuser, every account with 3 or more
   processed failed orders is blocked, and every account the action blocked has 3
   or more processed failed orders. *)
C16_DeactivateMatchesTrigger ==
    [][ \A u \in Accounts :
            deactivate_profiles(u, TRUE) =>
                \A a \in Accounts :
                    /\ ProcessedFailures(a) >= BlockThreshold => is_blocked'[a]
                    /\ (is_blocked'[a] /\ ~is_blocked[a]) => ProcessedFailures(a) >= BlockThreshold
      ]_vars

\* the quantity the items of a request ask of product p
Asked(items, p) ==
    LET RECURSIVE Sum(_)
        Sum(i) == IF i = 0 THEN 0
                  ELSE Sum(i - 1) + (IF items[i][1] = p THEN items[i][2] ELSE 0)
    IN Sum(Len(items))

\* row o is the order the API creates for item on behalf of profile a
CreatedFor(o, item, a) ==
    /\ ~orders[o].exists /\ orders'[o].exists
    /\ orders'[o].product = item[1] /\ orders'[o].quantity = item[2]
    /\ orders'[o].status = PENDING /\ orders'[o].has_been_processed = FALSE
    /\ orders'[o].created_by = a /\ orders'[o].company = ProfileCompany[a]

(* C17: a create or bulk-create request with an item whose quantity is greater than
   the product's stock_quantity at validation is answered with a validation error
   and changes neither the orders nor the stock; a validated single create always
   inserts its order, pending, has_been_processed false, of the caller's profile
   and company; a validated bulk create inserts every one of its orders so, or
   (the items jointly asking more than the stock) is rolled back whole. *)
C17_CreateChecksStock ==
    [][ /\ \A t \in Procs, u \in Accounts, items \in Items :
            ( /\ create_validate(t, u, items)
              /\ \E i \in 1..Len(items) : items[i][2] > stock_quantity[items[i][1]] )
            => /\ response' = "400 validation error"
               /\ UNCHANGED <<orders, stock_quantity, pc, local>>
        /\ \A t \in Procs :
            (pc[t] = "validated" /\ pc'[t] # "validated") =>
                LET items == local[t].items IN
                \/ /\ pc'[t] = "inserted" /\ Len(items) = 1
                   /\ \E o \in OrderIds :
                         /\ CreatedFor(o, items[1], local[t].by)
                         /\ \A x \in OrderIds \ {o} : orders'[x] = orders[x]
                \/ /\ pc'[t] = "idle" /\ Len(items) > 1
                   /\ \A i \in 1..Len(items) :
                         \E o \in OrderIds : CreatedFor(o, items[i], local[t].by)
                   /\ Cardinality({o \in OrderIds : orders'[o] # orders[o]}) = Len(items)
                \/ /\ pc'[t] = "idle" /\ Len(items) > 1
                   /\ UNCHANGED <<orders, stock_quantity>>
                   /\ \E p \in Products : Asked(items, p) > stock_quantity[p]
      ]_vars

\* one order was created through the API and took the stock of its product; the
\* next request for that product was refused with a validation error
C17_Witness ==
    /\ response = "400 validation error"
    /\ \A t \in Procs : pc[t] = "idle"
    /\ \E o \in OrderIds :
          /\ orders[o].exists /\ orders[o].status = PENDING /\ ~orders[o].has_been_processed
          /\ stock0[orders[o].product] = orders[o].quantity
          /\ stock_quantity[orders[o].product] = 0
          /\ \A x \in OrderIds \ {o} : ~orders[x].exists

\* the caller reaches export e: permission, queryset and object permission
Reaches(user, e) ==
    /\ has_permission(user) /\ e \in ExportQueryset(user)
    /\ has_object_permission(user, exports[e])

(* C18: download answers with the file only if the export is ready and has a file
   attached; for a caller who reaches the export, a status other than ready is
   answered 400 (file attached or not) and a ready export without a file, or
   whose file is not in the storage, 404; download changes neither the exports
   nor the storage. *)
C18_DownloadOnlyReadyFile ==
    [][ \A user \in RequestUsers, e \in ExportIds, opened \in BOOLEAN :
            download(user, e, opened) =>
                /\ response' = "200 file" =>
                      /\ exports[e].status = READY
                      /\ exports[e].file # Null /\ exports[e].file \in StoredNames
                /\ (Reaches(user, e) /\ exports[e].status # READY) =>
                      response' = "400 not ready"
                /\ ( /\ Reaches(user, e) /\ exports[e].status = READY
                     /\ exports[e].file = Null \/ exports[e].file \notin StoredNames ) =>
                      response' \in {"404 not available", "404 not on storage"}
                /\ UNCHANGED <<exports, storage>>
      ]_vars

\* every export is pending with a stored file attached, and the last download was
\* answered 400
C18_Witness ==
    /\ response = "400 not ready"
    /\ \A e \in ExportIds :
          /\ exports[e].exists /\ exports[e].status = PENDING
          /\ exports[e].file # Null /\ exports[e].file \in StoredNames

(* C19: a list of orders or products and a download of an export give a caller
   who is not a superuser only records of the company of the caller's profile
   (an operator only orders it created); a superuser with a profile is given the
   records of every company; a caller without a profile is given nothing. *)
C19_TenantIsolation ==
    [][ \A user \in RequestUsers :
          LET mine(c) == c = ProfileCompany[user.profile] IN
          /\ list_orders(user) =>
                /\ user.profile = NoProfile => seen' = {}
                /\ (user.profile # NoProfile /\ ~user.is_superuser) =>
                      \A o \in seen' :
                          /\ mine(orders[o].company)
                          /\ ProfileRole[user.profile] = "operator" =>
                                orders[o].created_by = user.profile
                /\ (user.profile # NoProfile /\ user.is_superuser) =>
                      seen' = {o \in OrderIds : orders[o].exists}
          /\ list_products(user) =>
                /\ user.profile = NoProfile => seen' = {}
                /\ (user.profile # NoProfile /\ ~user.is_superuser) =>
                      \A p \in seen' : mine(ProductCompany[p])
                /\ (user.profile # NoProfile /\ user.is_superuser) => seen' = Products
          /\ \A e \in ExportIds, opened \in BOOLEAN :
                download(user, e, opened) =>
                    /\ user.profile = NoProfile => seen' = {}
                    /\ (user.profile # NoProfile /\ ~user.is_superuser) =>
                          \A x \in seen' : mine(exports[x].company)
                    /\ (user.profile # NoProfile /\ user.is_superuser /\ exports[e].exists) =>
                          response' \notin {"403 forbidden", "404 not found"}
      ]_vars

(* C20: an order's status changes only pending -> processing, processing ->
   approved, processing -> failed, and failed -> processing for an order whose
   retry was accepted; so a terminal status is only written over processing, and
   an approved order never changes status. *)
C20_StatusTransitions ==
    [][ \A o \in OrderIds :
            orders'[o].status # orders[o].status =>
                \/ orders[o].status = PENDING /\ orders'[o].status = PROCESSING
                \/ orders[o].status = PROCESSING /\ orders'[o].status \in {APPROVED, FAILED}
                \/ /\ orders[o].status = FAILED /\ orders'[o].status = PROCESSING
                   /\ o \in retried
      ]_vars
(* C21: through order creation and process_order runs, a pending order has
   has_been_processed false, an approved or failed order has has_been_processed
   true (the terminal save sets both), and no step clears has_been_processed. *)
C21_ProcessedFlag ==
    [][ \A o \in OrderIds :
            /\ (orders'[o].exists /\ orders'[o].status = PENDING) => ~orders'[o].has_been_processed
            /\ (orders'[o].exists /\ orders'[o].status \in {APPROVED, FAILED})
                  => orders'[o].has_been_processed
            /\ (orders[o].exists /\ orders[o].has_been_processed) => orders'[o].has_been_processed
      ]_vars

\* the amount the run of process t has removed from the stock (lines 32-35: the run
\* holds status approved iff its UPDATE matched the row)
Took(t) == IF pc[t] = "decided" /\ local[t].status = APPROVED
           THEN orders[local[t].order].quantity ELSE 0

\* order o is in processing with no run in flight and no delivery waiting
Stuck(o) ==
    /\ orders[o].status = PROCESSING /\ queue[o] = 0
    /\ ~ \E t \in Procs : pc[t] # "idle" /\ local[t].order = o

(* C22: a process_order run that is cut short by an exception between its save of
   processing and its terminal save ends without another write: the order, the
   failure counters and the stock are as if the run had taken nothing (the run
   removed nothing from the stock); approve_orders and the retry paths enqueue no
   order that is in processing, so an order left in processing with no run and
   no delivery pending stays so for ever. *)
C22_StuckInProcessing ==
    [][ /\ \A t \in Procs :
            (process_order_except(t) /\ pc[t] \in {"processing", "decided"}) =>
                /\ UNCHANGED <<orders, stock_quantity, failed_orders_count, is_blocked, failures>>
                /\ orders'[local[t].order].status = PROCESSING
                /\ Took(t) = 0
        /\ \A o \in OrderIds :
            (orders[o].status = PROCESSING /\ queue'[o] > queue[o]) => FALSE
        /\ \A o \in OrderIds : Stuck(o) => Stuck(o)'
      ]_vars

(* C23: no two invocations of generate_export choose the same file name: no file
   is stored under a name that an earlier invocation had chosen (the storage
   then appends a suffix to the name), whether the two invocations are for the
   same export or for two. *)
C23_FileNameUnique == \A f \in storage : f[1][3] = 0

\* the stock removed on behalf of order o so far: at its creation and by its runs
Removed(o) == reserved[o] + decremented[o]

(* C24: over the life of an order (creation through the API, processing, retries)
   the stock removed on its behalf never exceeds its quantity, and a failed
   order with no run in flight has no stock removed on its behalf. *)
C24_OrderHoldsAtMostItsQuantity ==
    \A o \in OrderIds :
        orders[o].exists =>
            /\ Removed(o) <= orders[o].quantity
            /\ (orders[o].status = FAILED /\ ~Running(o)) => Removed(o) = 0

(* C25: a request of an account whose is_blocked is true, made with the token the
   account holds, creates no order (it does not get past the start of create or
   bulk_create) and enqueues no retry. *)
C25_BlockedCannotAct ==
    [][ /\ \A t \in Procs, u \in Accounts, items \in Items :
            (create_validate(t, u, items) /\ is_blocked[u]) =>
                UNCHANGED <<pc, local, orders, stock_quantity>>
        /\ \A u \in Accounts, o \in OrderIds :
            (retry(u, o) /\ is_blocked[u]) => UNCHANGED <<queue, enqueued, retried>>
      ]_vars

(* C26: a failure handler that completes for an account that is unblocked while its
   failed_orders_count is 3 or more blocks the account again; an account that
   was reset and then unblocked is blocked again only when three processed
   failures have been handled since the reset (a handler in flight at the reset
   counted among them). *)
C26_ReblockAfterUnblock ==
    [][ /\ \A t \in Procs :
            ( /\ pc[t] = "increment" /\ pc'[t] = "idle"
              /\ ~is_blocked[local[t].by]
              /\ failed_orders_count[local[t].by] >= BlockThreshold )
            => is_blocked'[local[t].by]
        /\ \A a \in Accounts :
            (a \in cleared' /\ is_blocked'[a]) =>
                failures'[a] - reset_base'[a] >= BlockThreshold
      ]_vars
====
